---- MODULE Spec2Model ----
(***************************************************************************)
(* A model of the llama runner client of llm/server.go: the LlamaServer    *)
(* operations Completion, Embedding, Tokenize, Detokenize and Close, seen  *)
(* from one caller.  The runner and the HTTP transport are the             *)
(* environment: what a POST is answered with and what the line scanner     *)
(* yields next are chosen nondeterministically.                            *)
(***************************************************************************)
EXTENDS Integers, Sequences, FiniteSets, TLC

\* ------------------------------------------------------------------ bounds

\* The most lines the runner sends during one call, over all its attempts.
MaxLines == 3

\* --------------------------------------------------------------- constants

\* A retry loop that allows one pass too many.
maxRetriesOffByOne == 3 + 1

maxRetries == 3

\* An error threshold that lets the 4xx statuses through.
StatusErrorServerOnly == 400 + 100

\* resp.StatusCode >= 400 is an error answer.
StatusError == 400

\* The text the runner answers with when its only slot is taken.
SlotUnavailable == "slot unavailable"

\* ----------------------------------------------------- the runner's answers

Ops == {"Completion", "Embedding", "Tokenize", "Detokenize"}

\* HTTP statuses the runner may answer with.
Statuses == {200, 400, 500}

\* Response bodies of a non-streaming answer.
Bodies == {"bodyA", "bodyB"}

\* The content field of a decoded event.
Contents == {"", "a", "b", SlotUnavailable}

NoLine == [kind |-> "none", text |-> "", json |-> FALSE, content |-> "", stop |-> FALSE]

EmptyLine == [kind |-> "empty", text |-> "", json |-> FALSE, content |-> "", stop |-> FALSE]

\* A line that does not begin with "data: ".
TextLine(t) == [kind |-> "text", text |-> t, json |-> FALSE, content |-> "", stop |-> FALSE]

\* A line "data: <payload>"; json says whether the payload decodes.
DataLine(j, c, s) == [kind |-> "data", text |-> "", json |-> j, content |-> c, stop |-> s]

Lines ==
    {EmptyLine}
        \cup {TextLine(t) : t \in {SlotUnavailable, "garbage"}}
        \cup {DataLine(FALSE, "", FALSE)}
        \cup {DataLine(TRUE, c, s) : c \in Contents, s \in BOOLEAN}

NoResp == [status |-> 0, readOk |-> FALSE, body |-> "", json |-> FALSE]

\* An answer whose body is read whole: whether the read succeeds, the body's
\* text, and whether that text decodes as the JSON the operation expects.
Responses == [status : Statuses, readOk : BOOLEAN, body : Bodies, json : BOOLEAN]

\* The answer whose body is the event stream: Completion reads it line by line.
StreamResponse(st) == [status |-> st, readOk |-> TRUE, body |-> "stream", json |-> FALSE]

\* What Completion's POST can be answered with: below the error statuses only the
\* status matters before the scanner takes the body over.
CompletionResponses ==
    {r \in Responses : r.status >= StatusError /\ ~r.json}
        \cup {StreamResponse(st) : st \in {x \in Statuses : x < StatusError}}

\* How a response body can end under the scanner.
ScanEnds == {"EOF", "unexpectedEOF", "readErr"}

\* ------------------------------------------------------ callback and result

ContentEvent(c) == [content |-> c, done |-> FALSE]

DoneEvent == [content |-> "", done |-> TRUE]

NoResult == [err |-> "pending", text |-> ""]

Success == [err |-> "nil", text |-> ""]

Error(kind, text) == [err |-> kind, text |-> text]

VARIABLES
    op,           \* the operation the caller is in, "none" when in none
    pc,           \* where that operation is
    retries,      \* Completion's loop counter
    retryDelay,   \* in units of 100 microseconds
    retryNeeded,
    resp,         \* the response http.DefaultClient.Do returned
    line,         \* scanner.Bytes()
    scanEnd,      \* how the scanner of this attempt ended, "none" while it has not
    sent,         \* per attempt, the lines its scanner has yielded
    linesRead,    \* lines yielded during this call
    events,       \* the calls of fn, in order
    result,       \* what the operation returned
    cancelled,    \* ctx.Done() is closed
    posts,        \* POST requests this call has sent to the port
    openBodies,   \* response bodies of this call not yet closed
    sleeps,       \* the time.Sleep calls of this call, in order
    killed,       \* cmd.Process.Kill() has been called
    closed,       \* an external Close has returned
    afterClose    \* this call was invoked after Close returned

vars ==
    <<op, pc, retries, retryDelay, retryNeeded, resp, line, scanEnd, sent, linesRead,
      events, result, cancelled, posts, openBodies, sleeps, killed, closed, afterClose>>

\* ------------------------------------------------- the variant selector state

VARIABLES
    availableTags,  \* the keys of available(): the variant tags found in workDir
    gpuInfo,        \* the probe handed to serversForGpu: Library and Variant
    cpuVariant,     \* gpu.GetCPUVariant()
    servers,        \* the list serversForGpu returned
    selPc           \* "off", "input" before the call, "done" after it

selVars == <<availableTags, gpuInfo, cpuVariant, servers, selPc>>

\* The selector is not part of this run.
SelectorOff ==
    /\ availableTags = {}
    /\ gpuInfo = [Library |-> "cpu", Variant |-> ""]
    /\ cpuVariant = ""
    /\ servers = <<>>
    /\ selPc = "off"

\* The state of the components a specification leaves out.
\* The layer planner of NewLlamaServer: the operating system, the decoded model,
\* the probed memory and device count, the options as the caller passed them and
\* as the planner leaves them.
VARIABLES goos, ggml, vram, deviceCount, optsIn, opts, planPc

planVars == <<goos, ggml, vram, deviceCount, optsIn, opts, planPc>>

PlannerOff ==
    /\ goos = "linux"
    /\ ggml = [NumLayers |-> 1, NumEmbed |-> 8, NumHead |-> 4, NumHeadKv |-> 4,
               NumGQA |-> 1, NumCtx |-> 8, Size |-> 64]
    /\ vram = 0
    /\ deviceCount = 1
    /\ optsIn = [NumCtx |-> 4, NumGPU |-> -1]
    /\ opts = [NumCtx |-> 4, NumGPU |-> -1]
    /\ planPc = "off"

\* How many times NewLlamaServer is called.
MaxRunners == 2

\* How many of the ports of the ephemeral range are drawn.
NumPorts == 2

\* How many ticks of the health poll fit before the wait expires.
HealthTicks == 2

\* The first port of the ephemeral range.
PortBase == 49152

Runners == 1..MaxRunners

Ports == PortBase..(PortBase + NumPorts - 1)

NoPort == 0

\* The zero value of a channel field: no send and no receive on it ever
\* completes.
NilChannel == "nil"

\* One call of NewLlamaServer each: where the call is, the port it drew, the
\* child process, the position of the goroutine on cmd.Wait(), the done field
\* of the LlamaServer, the polls made, the error returned and the candidates
\* whose runner was started.
VARIABLES spPc, spPort, child, watcher, done, ticks, spErr, tried

spawnVars == <<spPc, spPort, child, watcher, done, ticks, spErr, tried>>

SpawnOff ==
    /\ spPc = [r \in Runners |-> "idle"]
    /\ spPort = [r \in Runners |-> NoPort]
    /\ child = [r \in Runners |-> "none"]
    /\ watcher = [r \in Runners |-> "none"]
    /\ done = [r \in Runners |-> NilChannel]
    /\ ticks = [r \in Runners |-> 0]
    /\ spErr = [r \in Runners |-> "none"]
    /\ tried = [r \in Runners |-> <<>>]

\* How many callers send generations to the one runner.
MaxCallers == 2

\* How many generations each caller asks for.
MaxCalls == 2

Callers == 1..MaxCallers

\* The callers of one runner: where each caller is, the queue of the waiting
\* ones, the callers whose POST /completion is in flight, the attempts of the
\* running generation and the generations each caller has asked for.
VARIABLES schedPc, queue, inFlight, attempts, calls

schedVars == <<schedPc, queue, inFlight, attempts, calls>>

SchedOff ==
    /\ schedPc = [c \in Callers |-> "idle"]
    /\ queue = <<>>
    /\ inFlight = {}
    /\ attempts = [c \in Callers |-> 0]
    /\ calls = [c \in Callers |-> 0]

\* The command line and the environment of the runner: the adapters and
\* projectors passed to NewLlamaServer, the entries of the LD_LIBRARY_PATH the
\* daemon runs with, the parameters built, the entries of the child's
\* LD_LIBRARY_PATH, the error returned and where the call is.
VARIABLES adapters, projectors, inheritedPath, params, childPath, cmdErr, cmdPc

cmdVars == <<adapters, projectors, inheritedPath, params, childPath, cmdErr, cmdPc>>

NoParams == [ctxSize |-> 0, nGpuLayers |-> 0, lora |-> "", mmproj |-> ""]

CommandOff ==
    /\ adapters = <<>>
    /\ projectors = <<>>
    /\ inheritedPath = <<>>
    /\ params = NoParams
    /\ childPath = <<>>
    /\ cmdErr = "none"
    /\ cmdPc = "off"

\* The body Completion sends: a request, a second Format to send the same
\* request with, and the two bodies built.
VARIABLES req, otherFormat, body, otherBody, reqPc

reqVars == <<req, otherFormat, body, otherBody, reqPc>>

NoOptions ==
    [NumPredict |-> 0, NumKeep |-> 0, MainGPU |-> 0, Temperature |-> 0, TopK |-> 0,
     TopP |-> 0, TFSZ |-> 0, TypicalP |-> 0, RepeatLastN |-> 0, RepeatPenalty |-> 0,
     PresencePenalty |-> 0, FrequencyPenalty |-> 0, Mirostat |-> 0, MirostatTau |-> 0,
     MirostatEta |-> 0, PenalizeNewline |-> FALSE, Seed |-> 0, Stop |-> <<>>]

RequestOff ==
    /\ req = [Prompt |-> "", Format |-> "", Images |-> <<>>, Options |-> NoOptions]
    /\ otherFormat = ""
    /\ body = <<>>
    /\ otherBody = <<>>
    /\ reqPc = "off"

\* How many times Init is run on the working directory.
MaxInits == 2

\* The embedded tree: build/<os>/<arch>/<variant>/bin/<file>.
EmbeddedFiles ==
    {<<"build", "linux", "x86_64", "cpu", "bin", "server">>,
     <<"build", "linux", "x86_64", "cuda_v12", "bin", "server.gz">>,
     <<"build", "linux", "x86_64", "cuda_v12", "bin", "libext.so">>}

\* The extraction of the payloads: the run of Init, where it is and what the
\* runs returned; the task of each embedded file; the directories and the files
\* of the working directory; the files written and whether an I/O operation
\* failed in this run.
VARIABLES inits, initPc, initResults, task, dirs, content, written, faulted

payVars == <<inits, initPc, initResults, task, dirs, content, written, faulted>>

PayloadOff ==
    /\ inits = 0
    /\ initPc = "idle"
    /\ initResults = <<>>
    /\ task = [f \in EmbeddedFiles |-> "none"]
    /\ dirs = {}
    /\ content = <<>>
    /\ written = {}
    /\ faulted = FALSE

\* The streaming chat completion of the OpenAI endpoint: what the upstream
\* channel still delivers, the value the transformation goroutine holds, where
\* the goroutine and the streaming loop are, the events written to the response
\* and whether the client has gone.
VARIABLES ch, val, gPc, wPc, wire, clientGone

oaVars == <<ch, val, gPc, wPc, wire, clientGone>>

OpenAIOff ==
    /\ ch = <<>>
    /\ val = "none"
    /\ gPc = "off"
    /\ wPc = "off"
    /\ wire = <<>>
    /\ clientGone = FALSE

restVars == <<cmdVars, reqVars, payVars, oaVars>>

RestOff == CommandOff /\ RequestOff /\ PayloadOff /\ OpenAIOff

otherVars == <<selVars, planVars, spawnVars, schedVars, restVars>>

OthersOff == SelectorOff /\ PlannerOff /\ SpawnOff /\ SchedOff /\ RestOff

allVars == <<vars, otherVars>>

\* No operation has been invoked on the runner.
CallOff ==
    /\ op = "none"
    /\ pc = "idle"
    /\ retries = 0
    /\ retryDelay = 1
    /\ retryNeeded = FALSE
    /\ resp = NoResp
    /\ line = NoLine
    /\ scanEnd = "none"
    /\ sent = <<>>
    /\ linesRead = 0
    /\ events = <<>>
    /\ result = NoResult
    /\ cancelled = FALSE
    /\ posts = 0
    /\ openBodies = 0
    /\ sleeps = <<>>
    /\ killed = FALSE
    /\ closed = FALSE
    /\ afterClose = FALSE

Init == CallOff /\ OthersOff

\* ------------------------------------------------------------ pure helpers

\* len(line) == 0
IsEmptyLine(l) == l.kind = "empty"

\* bytes.Contains(line, []byte("slot unavailable")): the text is looked for in the
\* whole line, the JSON payload of a data line included.
ContainsSlotUnavailable(l) ==
    \/ l.kind = "text" /\ l.text = SlotUnavailable
    \/ l.kind = "data" /\ l.content = SlotUnavailable

\* A prefix test that accepts every line.
HasDataPrefixUnchecked(l) == TRUE

\* bytes.CutPrefix(line, []byte("data: ")) reports ok
HasDataPrefix(l) == l.kind = "data"

\* json.Unmarshal(evt, &c) returns nil
Unmarshals(l) == l.kind = "data" /\ l.json

\* The done event made before the content event of the same line.
LineEventsDoneFirst(l) ==
    (IF l.stop THEN <<DoneEvent>> ELSE <<>>)
        \o (IF l.content # "" THEN <<ContentEvent(l.content)>> ELSE <<>>)

\* The calls of fn one decoded event makes: the content when it is not empty,
\* then the done event on stop.
LineEvents(l) ==
    (IF l.content # "" THEN <<ContentEvent(l.content)>> ELSE <<>>)
        \o (IF l.stop THEN <<DoneEvent>> ELSE <<>>)

\* An error test that never recognises the unexpected EOF.
IsUnexpectedEOFNever(e) == FALSE

\* strings.Contains(err.Error(), "unexpected EOF")
IsUnexpectedEOF(e) == e = "unexpectedEOF"

ExitedText == "llama runner exited, you may not have enough available memory to run this model"

\* A return of the operation: the deferred resp.Body.Close() calls run.
Return(r) ==
    /\ pc' = "returned"
    /\ result' = r
    /\ openBodies' = 0

\* s.Close(): s.cmd is set for every server NewLlamaServer returns.
KillRunner == killed' = TRUE

\* ----------------------------------------------------------------- actions

\* The caller invokes an operation with a fresh context.
StartCall(o) ==
    /\ pc \in {"idle", "returned"}
    /\ op' = o
    /\ pc' = "post"
    /\ retries' = 0
    /\ retryDelay' = 1
    /\ retryNeeded' = FALSE
    /\ resp' = NoResp
    /\ line' = NoLine
    /\ scanEnd' = "none"
    /\ sent' = <<>>
    /\ linesRead' = 0
    /\ events' = <<>>
    /\ result' = NoResult
    /\ cancelled' = FALSE
    /\ posts' = 0
    /\ openBodies' = 0
    /\ sleeps' = <<>>
    /\ afterClose' = closed
    /\ UNCHANGED <<killed, closed>>
    /\ UNCHANGED otherVars

\* The caller's context is cancelled while the operation runs.
Cancel ==
    /\ pc \notin {"idle", "returned"}
    /\ ~cancelled
    /\ cancelled' = TRUE
    /\ UNCHANGED <<op, pc, retries, retryDelay, retryNeeded, resp, line, scanEnd, sent,
                   linesRead, events, result, posts, openBodies, sleeps, killed, closed,
                   afterClose>>
    /\ UNCHANGED otherVars

\* Close, called from outside the operation (the scheduler dropping the runner).
Close ==
    /\ ~closed
    /\ KillRunner
    /\ closed' = TRUE
    /\ UNCHANGED <<op, pc, retries, retryDelay, retryNeeded, resp, line, scanEnd, sent,
                   linesRead, events, result, cancelled, posts, openBodies, sleeps,
                   afterClose>>
    /\ UNCHANGED otherVars

\* The delay stays what it was.
NextDelaySame(d) == d

\* retryDelay *= 2
NextDelay(d) == d * 2

\* One pass of Completion's retry loop up to the answer of http.DefaultClient.Do:
\* the sleep before a retry, then the POST.  Do fails when the context is cancelled
\* and may fail for any transport reason.
DoCompletion ==
    /\ op = "Completion"
    /\ pc = "post"
    /\ sleeps' = IF retries > 0 THEN Append(sleeps, retryDelay) ELSE sleeps
    /\ retryDelay' = IF retries > 0 THEN NextDelay(retryDelay) ELSE retryDelay
    /\ posts' = posts + 1
    /\ \E r \in CompletionResponses \cup {NoResp} :
        /\ cancelled => r = NoResp
        /\ resp' = r
        /\ IF r = NoResp
           THEN Return(Error("post", "POST predict"))
           ELSE /\ pc' = "resp"
                /\ openBodies' = openBodies + 1
                /\ result' = result
    /\ UNCHANGED <<op, retries, retryNeeded, line, scanEnd, sent, linesRead, events,
                   cancelled, killed, closed, afterClose>>
    /\ UNCHANGED otherVars

\* Completion after Do: an error status ends the call with the body as its text,
\* any other status starts a scanner on the body.
CompletionResponse ==
    /\ op = "Completion"
    /\ pc = "resp"
    /\ IF resp.status >= StatusError
       THEN /\ Return(IF resp.readOk
                      THEN Error("body", resp.body)
                      ELSE Error("readBody", "failed reading llm error response"))
            /\ UNCHANGED <<retryNeeded, scanEnd, sent>>
       ELSE /\ pc' = "scan"
            /\ retryNeeded' = FALSE
            /\ scanEnd' = "none"
            /\ sent' = Append(sent, <<>>)
            /\ UNCHANGED <<result, openBodies>>
    /\ UNCHANGED <<op, retries, retryDelay, resp, line, linesRead, events, cancelled,
                   posts, sleeps, killed, closed, afterClose>>
    /\ UNCHANGED otherVars

\* scanner.Scan() returns true: the runner's next line.
ScanLine ==
    /\ op = "Completion"
    /\ pc = "scan"
    /\ linesRead < MaxLines
    /\ \E l \in Lines :
        /\ line' = l
        /\ sent' = [sent EXCEPT ![Len(sent)] = Append(@, l)]
    /\ linesRead' = linesRead + 1
    /\ pc' = "select"
    /\ UNCHANGED <<op, retries, retryDelay, retryNeeded, resp, scanEnd, events, result,
                   cancelled, posts, openBodies, sleeps, killed, closed, afterClose>>
    /\ UNCHANGED otherVars

\* scanner.Scan() returns false, and what follows the read loop: the scanner's
\* error, the success return, or the next pass of the retry loop.
ScanEnd ==
    /\ op = "Completion"
    /\ pc = "scan"
    /\ \E e \in ScanEnds :
        /\ scanEnd' = e
        /\ IF e # "EOF"
           THEN IF IsUnexpectedEOF(e)
                THEN /\ KillRunner
                     /\ Return(Error("exited", ExitedText))
                     /\ UNCHANGED retries
                ELSE /\ Return(Error("read", "error reading llm response"))
                     /\ UNCHANGED <<retries, killed>>
           ELSE IF ~retryNeeded
                THEN /\ Return(Success)
                     /\ UNCHANGED <<retries, killed>>
                ELSE /\ retries' = retries + 1
                     /\ IF retries + 1 < maxRetries
                        THEN /\ pc' = "post"
                             /\ UNCHANGED <<result, openBodies>>
                        ELSE Return(Error("maxRetries", "max retries exceeded"))
                     /\ UNCHANGED killed
    /\ UNCHANGED <<op, retryDelay, retryNeeded, resp, line, sent, linesRead, events,
                   cancelled, posts, sleeps, closed, afterClose>>
    /\ UNCHANGED otherVars

\* The select on ctx.Done() at the head of the loop body.
Select ==
    /\ op = "Completion"
    /\ pc = "select"
    /\ IF cancelled
       THEN Return(Error("ctx", "context canceled"))
       ELSE /\ pc' = "process"
            /\ UNCHANGED <<result, openBodies>>
    /\ UNCHANGED <<op, retries, retryDelay, retryNeeded, resp, line, scanEnd, sent,
                   linesRead, events, cancelled, posts, sleeps, killed, closed,
                   afterClose>>
    /\ UNCHANGED otherVars

\* The default branch of the select: one line is handled.  The break on a
\* slot-unavailable line leaves the select only, so the read loop goes on.
ProcessLine ==
    /\ op = "Completion"
    /\ pc = "process"
    /\ IF IsEmptyLine(line)
       THEN /\ pc' = "scan"
            /\ UNCHANGED <<retryNeeded, events, result, openBodies>>
       ELSE IF ContainsSlotUnavailable(line)
       THEN /\ retryNeeded' = TRUE
            /\ pc' = "scan"
            /\ UNCHANGED <<events, result, openBodies>>
       ELSE IF ~HasDataPrefix(line)
       THEN /\ Return(Error("parse", "error parsing llm response stream"))
            /\ UNCHANGED <<retryNeeded, events>>
       ELSE IF ~Unmarshals(line)
       THEN /\ Return(Error("unmarshal", "error unmarshaling llm prediction response"))
            /\ UNCHANGED <<retryNeeded, events>>
       ELSE /\ events' = events \o LineEvents(line)
            /\ IF line.stop
               THEN Return(Success)
               ELSE /\ pc' = "scan"
                    /\ UNCHANGED <<result, openBodies>>
            /\ UNCHANGED retryNeeded
    /\ UNCHANGED <<op, retries, retryDelay, resp, line, scanEnd, sent, linesRead,
                   cancelled, posts, sleeps, killed, closed, afterClose>>
    /\ UNCHANGED otherVars

\* Embedding, Tokenize and Detokenize up to the answer of http.DefaultClient.Do.
DoSimple ==
    /\ op \in Ops \ {"Completion"}
    /\ pc = "post"
    /\ posts' = posts + 1
    /\ \E r \in Responses \cup {NoResp} :
        /\ cancelled => r = NoResp
        /\ resp' = r
        /\ IF r = NoResp
           THEN Return(Error("post", "do request"))
           ELSE /\ pc' = "resp"
                /\ openBodies' = openBodies + 1
                /\ result' = result
    /\ UNCHANGED <<op, retries, retryDelay, retryNeeded, line, scanEnd, sent, linesRead,
                   events, cancelled, sleeps, killed, closed, afterClose>>
    /\ UNCHANGED otherVars

\* Embedding, Tokenize and Detokenize after Do: the body is read whole, then the
\* status is looked at, then the body is decoded.
SimpleResponse ==
    /\ op \in Ops \ {"Completion"}
    /\ pc = "resp"
    /\ Return(IF ~resp.readOk THEN Error("read", "read response")
              ELSE IF resp.status >= StatusError THEN Error("body", resp.body)
              ELSE IF ~resp.json THEN Error("unmarshal", "unmarshal response")
              ELSE Success)
    /\ UNCHANGED <<op, retries, retryDelay, retryNeeded, resp, line, scanEnd, sent,
                   linesRead, events, cancelled, posts, sleeps, killed, closed,
                   afterClose>>
    /\ UNCHANGED otherVars

Next ==
    \/ \E o \in Ops : StartCall(o)
    \/ Cancel
    \/ Close
    \/ DoCompletion
    \/ CompletionResponse
    \/ ScanLine
    \/ ScanEnd
    \/ Select
    \/ ProcessLine
    \/ DoSimple
    \/ SimpleResponse

Spec == Init /\ [][Next]_allVars

\* ---------------------------------------------------------- claim helpers

RECURSIVE Flatten(_)
Flatten(ss) == IF ss = <<>> THEN <<>> ELSE Head(ss) \o Flatten(Tail(ss))

IsContentEvent(e) == ~e.done

DecodesToContent(l) == l.kind = "data" /\ l.json /\ l.content # ""

\* The content events a sequence of lines stands for: one per line whose decoded
\* content is not empty, in the order of the lines.
ExpectedContent(ls) ==
    LET f == SelectSeq(ls, DecodesToContent)
    IN  [i \in 1..Len(f) |-> ContentEvent(f[i].content)]

ContentEventsOf(es) == SelectSeq(es, IsContentEvent)

Streaming == op = "Completion" /\ pc \in {"scan", "select", "process"}

\* ------------------------------------------------------------------ claims

\* C1: whenever Completion has handled every line it has read, the content
\* events the callback received are exactly those of the lines whose decoded
\* content is not empty, one per line and in the order of the lines.
C1_ContentEventsFollowLines ==
    (op = "Completion" /\ pc = "scan" /\ ~cancelled)
        => ContentEventsOf(events) = ExpectedContent(Flatten(sent))

C3_CancelStopsCallbacks ==
    [][(cancelled /\ Streaming /\ op' = op /\ pc' # pc)
        => /\ events' = events
           /\ (pc \in {"scan", "select"} /\ pc' = "returned") => result'.err = "ctx"]_vars

\* C4: after a slot unavailable line no later line of the same response reaches
\* the callback, and the next request is sent only after the connection of the
\* abandoned response was closed.
C4_BusyAbandonsResponse ==
    [][(op = "Completion" /\ op' = op /\ pc \notin {"idle", "returned"})
        => /\ retryNeeded => events' = events
           /\ posts' > posts => openBodies = 0]_vars

C6_RetryShowsOnlyCompletingAttempt ==
    (op = "Completion" /\ pc = "returned" /\ result = Success /\ retries >= 1
        /\ Len(events) >= 1 /\ events[Len(events)].done)
        => events = ExpectedContent(sent[Len(sent)]) \o <<DoneEvent>>

\* C7: a response with a status of 400 or above ends the operation in the step
\* that looks at it: with an error, which is the body when the body could be
\* read, without another request and without a call of the callback.
C7_ErrorStatusIsFatal ==
    [][(pc = "resp" /\ resp.status >= 400 /\ pc' # pc)
        => /\ pc' = "returned"
           /\ result'.err # "nil"
           /\ resp.readOk => result' = Error("body", resp.body)
           /\ events' = events
           /\ posts' = posts]_vars

C7_Witness ==
    /\ op = "Completion"
    /\ pc = "returned"
    /\ posts = 2
    /\ resp.status >= 400
    /\ result = Error("body", resp.body)

\* C8 as stated: after a non-empty line without the data prefix was read the call
\* reads no further line and sends no further request, and it returns the
\* malformed-stream error.
C8_NonDataLineIsMalformed ==
    (op = "Completion" /\ line.kind = "text")
        => /\ pc \in {"select", "process", "returned"}
           /\ pc = "returned" => result.err = "parse"

\* C8 as amended: a line without the data prefix that does not hold the slot
\* unavailable text, met by the select with the context not cancelled, makes the
\* call return the malformed-stream error with no call of the callback and no
\* further request; with the context cancelled the call returns the
\* cancellation error instead.
C8_GarbageLineIsMalformed ==
    [][(op = "Completion" /\ pc \in {"select", "process"} /\ pc' # pc
            /\ line.kind = "text" /\ line.text # SlotUnavailable)
        => /\ events' = events
           /\ posts' = posts
           /\ IF pc = "process" THEN pc' = "returned" /\ result'.err = "parse"
              ELSE IF cancelled THEN pc' = "returned" /\ result'.err = "ctx"
              ELSE pc' = "process"]_vars

C8_Witness ==
    /\ op = "Completion"
    /\ pc = "returned"
    /\ line = TextLine("garbage")
    /\ result.err = "parse"
    /\ Len(events) >= 1

C10_NoRequestAfterClose ==
    /\ closed => killed
    /\ afterClose => posts = 0

\* ======================================================= the variant selector

\* A variant tag <library>[_<variant>], kept as its two parts: the library is
\* the text before the first "_" (strings.Split(a, "_")[0]).
Tag(lib, variant) == [lib |-> lib, var |-> variant]

CpuTag == Tag("cpu", "")

MetalTag == Tag("metal", "")

\* The variant tags a build can ship.
TagUniverse ==
    {Tag("cpu", ""), Tag("cpu", "avx"), Tag("cpu", "avx2"), Tag("cuda", "v11"),
     Tag("cuda", "v12"), Tag("rocm", "v5"), Tag("metal", "")}

\* What the probe can report.
ProbeLibraries == {"cpu", "cuda", "rocm", "metal"}

ProbeVariants == {"", "avx2", "v11", "v12"}

CpuVariants == {"", "avx", "avx2"}

\* The place of a variant suffix in the byte order of the tags of one library:
\* the bare library sorts first.
VariantRank(v) ==
    CASE v = "" -> 0
      [] v = "avx" -> 1
      [] v = "avx2" -> 2
      [] v = "v11" -> 3
      [] v = "v12" -> 4
      [] v = "v5" -> 5
      [] OTHER -> 6

TagLess(a, b) ==
    \/ a.lib = b.lib /\ VariantRank(a.var) < VariantRank(b.var)
    \/ a.lib # b.lib /\ a.lib = "cpu"
    \/ a.lib # b.lib /\ a.lib = "cuda" /\ b.lib # "cpu"
    \/ a.lib = "metal" /\ b.lib = "rocm"

\* slices.Sort(alt)
RECURSIVE SortTags(_)
SortTags(S) ==
    IF S = {} THEN <<>>
    ELSE LET m == CHOOSE x \in S : \A y \in S \ {x} : TagLess(x, y)
         IN  <<m>> \o SortTags(S \ {m})

\* requested := info.Library, with "_" + info.Variant when the variant is set
Requested(info) == Tag(info.Library, info.Variant)

\* The exact match is dropped.
ExactMatchDropped(avail, requested) == <<>>

\* The exact match: the requested tag when it is a key of available().
ExactMatch(avail, requested) == IF requested \in avail THEN <<requested>> ELSE <<>>

\* The early return is never taken.
ReturnsAtMetalNever(avail, requested) == FALSE

\* The early return inside the exact-match loop: the match is "metal".
ReturnsAtMetal(avail, requested) == requested \in avail /\ requested = MetalTag

\* Alternates that do not leave the requested tag out.
AlternatesWithRequested(avail, info, requested) ==
    IF info.Library # "cpu"
    THEN SortTags({a \in avail : a.lib = info.Library})
    ELSE <<>>

\* The alternates of a GPU library: every other available tag of that library,
\* sorted.
Alternates(avail, info, requested) ==
    IF info.Library # "cpu"
    THEN SortTags({a \in avail : a.lib = info.Library /\ a # requested})
    ELSE <<>>

\* The CPU runner appended for a GPU library: cpu_<variant> when the CPU has a
\* variant and that tag is available, nothing when it is not available, and the
\* bare cpu when the CPU has no variant.
CpuFallback(avail, info, variant) ==
    IF info.Library # "cpu"
    THEN IF variant # ""
         THEN IF Tag("cpu", variant) \in avail THEN <<Tag("cpu", variant)>> ELSE <<>>
         ELSE <<CpuTag>>
    ELSE <<>>

\* An empty list is returned as it is.
DefaultIfEmptySkipped(list) == list

\* if len(servers) == 0 { servers = []string{"cpu"} }
DefaultIfEmpty(list) == IF Len(list) = 0 THEN <<CpuTag>> ELSE list

serversForGpu(avail, info, variant) ==
    LET requested == Requested(info)
    IN  IF ReturnsAtMetal(avail, requested)
        THEN <<requested>>
        ELSE DefaultIfEmpty(ExactMatch(avail, requested)
                                \o Alternates(avail, info, requested)
                                \o CpuFallback(avail, info, variant))

\* Any probe and any set of extracted variants.
SelectorInput ==
    /\ availableTags \in SUBSET TagUniverse
    /\ gpuInfo \in [Library : ProbeLibraries, Variant : ProbeVariants]
    /\ cpuVariant \in CpuVariants
    /\ servers = <<>>
    /\ selPc = "input"

InitSelect == CallOff /\ SelectorInput /\ PlannerOff /\ SpawnOff /\ SchedOff /\ RestOff

\* One call of serversForGpu.
SelectServers ==
    /\ selPc = "input"
    /\ servers' = serversForGpu(availableTags, gpuInfo, cpuVariant)
    /\ selPc' = "done"
    /\ UNCHANGED <<availableTags, gpuInfo, cpuVariant>>
    /\ UNCHANGED <<vars, planVars, spawnVars, schedVars, restVars>>

NextSelect == SelectServers

SpecSelect == InitSelect /\ [][NextSelect]_allVars

\* C16: the list serversForGpu returns is not empty, and the requested tag is
\* its first element whenever it is a key of available().
C16_NonEmptyRequestedFirst ==
    selPc = "done" =>
        /\ Len(servers) >= 1
        /\ Requested(gpuInfo) \in availableTags => servers[1] = Requested(gpuInfo)

C16_Witness ==
    /\ selPc = "done"
    /\ Requested(gpuInfo) \in availableTags
    /\ servers[1] = Requested(gpuInfo)
    /\ Len(servers) >= 3

\* C17: no tag occurs twice in the list serversForGpu returns.
C17_NoDuplicates ==
    selPc = "done" =>
        \A i, j \in 1..Len(servers) : i # j => servers[i] # servers[j]

C17_Witness ==
    /\ selPc = "done"
    /\ gpuInfo.Library = "cuda"
    /\ Requested(gpuInfo) \in availableTags
    /\ Len(servers) >= 3

\* C18: for a library other than cpu the last element of the list is a CPU
\* variant; the early return at an available metal tag (C19) is left aside.
C18_LastIsCpu ==
    (selPc = "done" /\ gpuInfo.Library # "cpu"
        /\ ~(Requested(gpuInfo) = MetalTag /\ MetalTag \in availableTags))
        => servers[Len(servers)].lib = "cpu"

\* C19 as stated: when the requested tag is metal the list is metal alone.
C19_MetalAlone ==
    (selPc = "done" /\ Requested(gpuInfo) = MetalTag) => servers = <<MetalTag>>

\* C19 as amended: when the requested tag is metal and metal is a key of
\* available(), the list is metal alone.
C19_AvailableMetalAlone ==
    (selPc = "done" /\ Requested(gpuInfo) = MetalTag /\ MetalTag \in availableTags)
        => servers = <<MetalTag>>

C19_Witness ==
    /\ selPc = "done"
    /\ Requested(gpuInfo) = MetalTag
    /\ {MetalTag, CpuTag, Tag("cpu", "avx2")} \subseteq availableTags
    /\ cpuVariant = "avx2"
    /\ servers = <<MetalTag>>

\* ========================================================== the layer planner

\* The layer counts a caller can pass: auto, CPU only, one layer, more layers
\* than any model has, and a negative count other than auto.
NumGPUs == {-2, -1, 0, 1, 5000}

Models ==
    [NumLayers : {1, 3}, NumEmbed : {8}, NumHead : {4}, NumHeadKv : {1, 4},
     NumGQA : {1, 4}, NumCtx : {2, 8}, Size : {64, 512, 4096}]

VRAMs == {0, 512, 8192}

DeviceCounts == {1, 2}

OptionSets == [NumCtx : {1, 4, 16}, NumGPU : NumGPUs]

PlanProbes == [Library : {"cpu", "cuda"}, Variant : {"", "v12"}]

\* Go's integer division truncates toward zero.
Quot(a, b) == IF a >= 0 THEN a \div b ELSE -((-a) \div b)

\* The model's maximum is not applied.
NumCtxOfNoCeiling(o, m) == IF o.NumCtx < 4 THEN 4 ELSE o.NumCtx

\* opts.NumCtx after the two clamps
NumCtxOf(o, m) ==
    LET c == IF o.NumCtx > m.NumCtx THEN m.NumCtx ELSE o.NumCtx
    IN  IF c < 4 THEN 4 ELSE c

kvOf(o, m) ==
    Quot(2 * 2 * NumCtxOf(o, m) * m.NumLayers * m.NumEmbed * m.NumHeadKv, m.NumHead)

graphOf(o, m) == Quot(m.NumGQA * kvOf(o, m), 6)

\* The estimate is used as computed.
ClampLayersSkipped(layers, maxlayers) == layers

\* if layers > maxlayers { layers = maxlayers }
ClampLayers(layers, maxlayers) == IF layers > maxlayers THEN maxlayers ELSE layers

\* The number of layers the main GPU is estimated to hold.
layersOf(o, m, v, d) ==
    LET maxlayers == m.NumLayers + 1
        avg == Quot(v, d)
    IN  ClampLayers(Quot(maxlayers * (avg - graphOf(o, m)),
                         kvOf(o, m) + Quot(m.Size, d)),
                    maxlayers)

\* 1 + 2 must fit on the main gpu
Fits(o, m, v, d) ==
    LET maxlayers == m.NumLayers + 1
        layers == layersOf(o, m, v, d)
        min == graphOf(o, m) + Quot(kvOf(o, m) * layers, maxlayers)
    IN  ~(layers <= 0 \/ min > Quot(v, d))

\* The graph is left out of the sum.
ExceedsVRAMWithoutGraph(o, m, v) == m.Size + kvOf(o, m) > v

\* size+kv+graph > vram
ExceedsVRAM(o, m, v) == m.Size + kvOf(o, m) + graphOf(o, m) > v

\* The variant of the GPU probe is kept.
CpuInfoKeepsVariant == [Library |-> "cpu", Variant |-> gpuInfo.Variant]

CpuInfo == [Library |-> "cpu", Variant |-> cpuVariant]

PlannerInput ==
    /\ goos \in {"darwin", "linux"}
    /\ ggml \in Models
    /\ vram \in VRAMs
    /\ deviceCount \in DeviceCounts
    /\ optsIn \in OptionSets
    /\ opts = optsIn
    /\ planPc = "input"
    /\ availableTags = {}
    /\ gpuInfo \in PlanProbes
    /\ cpuVariant \in {"", "avx2"}
    /\ servers = <<>>
    /\ selPc = "off"

InitPlan == CallOff /\ PlannerInput /\ SpawnOff /\ SchedOff /\ RestOff

\* The context clamps and the switch on runtime.GOOS.
Plan ==
    /\ planPc = "input"
    /\ planPc' = "done"
    /\ LET ctx == NumCtxOf(opts, ggml)
           kv == kvOf(opts, ggml)
           graph == graphOf(opts, ggml)
       IN  IF goos = "darwin"
           THEN IF opts.NumGPU = 0
                THEN /\ opts' = [opts EXCEPT !.NumCtx = ctx]
                     /\ UNCHANGED gpuInfo
                ELSE IF ExceedsVRAM(opts, ggml, vram)
                THEN /\ opts' = [NumCtx |-> ctx, NumGPU |-> 0]
                     /\ gpuInfo' = CpuInfo
                ELSE /\ opts' = [NumCtx |-> ctx, NumGPU |-> 999]
                     /\ UNCHANGED gpuInfo
           ELSE IF gpuInfo.Library = "cpu"
                THEN /\ opts' = [NumCtx |-> ctx, NumGPU |-> 0]
                     /\ UNCHANGED gpuInfo
                ELSE IF opts.NumGPU = 0
                THEN /\ opts' = [opts EXCEPT !.NumCtx = ctx]
                     /\ gpuInfo' = CpuInfo
                ELSE IF opts.NumGPU # -1
                THEN /\ opts' = [opts EXCEPT !.NumCtx = ctx]
                     /\ UNCHANGED gpuInfo
                ELSE IF ~Fits(opts, ggml, vram, deviceCount)
                THEN /\ opts' = [NumCtx |-> ctx, NumGPU |-> 0]
                     /\ gpuInfo' = CpuInfo
                ELSE /\ opts' = [NumCtx |-> ctx,
                                 NumGPU |-> layersOf(opts, ggml, vram, deviceCount)]
                     /\ UNCHANGED gpuInfo
    /\ UNCHANGED <<goos, ggml, vram, deviceCount, optsIn>>
    /\ UNCHANGED <<availableTags, cpuVariant, servers, selPc>>
    /\ UNCHANGED <<vars, spawnVars, schedVars, restVars>>

NextPlan == Plan

SpecPlan == InitPlan /\ [][NextPlan]_allVars

\* The layer counts the planner itself produces for a model.
PlannedCounts(m) == (0..(m.NumLayers + 1)) \cup {999}

\* C20 as stated: the layer count NewLlamaServer resolves lies in
\* {0, ..., L+1, 999}, L being the model's layer count.
C20_NumGPUInRange == planPc = "done" => opts.NumGPU \in PlannedCounts(ggml)

\* The caller's count is neither auto nor zero, the system is not Darwin and the
\* probe reports a GPU library.
CallerSetCount ==
    /\ goos # "darwin"
    /\ gpuInfo.Library # "cpu"
    /\ optsIn.NumGPU \notin {-1, 0}

\* C20 as amended: the resolved layer count lies in {0, ..., L+1, 999} unless
\* the caller set a count other than -1 and 0 on a system other than Darwin
\* with a GPU library probed, and then it is the caller's count unchanged.
C20_NumGPUInRangeOrCallerSet ==
    planPc = "done" =>
        IF CallerSetCount
        THEN opts.NumGPU = optsIn.NumGPU
        ELSE opts.NumGPU \in PlannedCounts(ggml)

\* The automatic estimate was cut down to L+1 layers.
C20_Witness ==
    /\ planPc = "done"
    /\ goos = "linux"
    /\ optsIn.NumGPU = -1
    /\ gpuInfo.Library = "cuda"
    /\ opts.NumGPU = ggml.NumLayers + 1
    /\ ClampLayersSkipped(Quot((ggml.NumLayers + 1) * (Quot(vram, deviceCount) - graphOf(optsIn, ggml)),
                               kvOf(optsIn, ggml) + Quot(ggml.Size, deviceCount)),
                          ggml.NumLayers + 1) > ggml.NumLayers + 1

\* ============================================================ starting runners

\* The lists serversForGpu hands to NewLlamaServer: one with an alternate and
\* the CPU runner behind the requested tag, and one with the CPU runner alone.
SpawnInfo == [Library |-> "cuda", Variant |-> "v12"]

SpawnAvailable ==
    {{Tag("cuda", "v12"), Tag("cuda", "v11"), CpuTag}, {CpuTag}}

SpawnInput ==
    /\ availableTags \in SpawnAvailable
    /\ gpuInfo = SpawnInfo
    /\ cpuVariant = ""
    /\ servers = serversForGpu(availableTags, gpuInfo, cpuVariant)
    /\ selPc = "done"

InitSpawn == CallOff /\ PlannerOff /\ SpawnOff /\ SpawnInput /\ SchedOff /\ RestOff

\* The child process has been started and has not ended.
Alive(r) == child[r] \in {"loading", "serving"}

\* s.ping: a HEAD request to 127.0.0.1:<port> is answered 200 by whichever
\* process listens on that port.
PingOk(r) == \E q \in Runners : child[q] = "serving" /\ spPort[q] = spPort[r]

\* case err := <-s.done: a value is there to receive.
DoneReady(r) == done[r] # NilChannel /\ watcher[r] = "sending"

\* time.Now().After(expiresAt)
Expired(r) == ticks[r] >= HealthTicks

\* The error is returned without closing the server.
CloseSkipped(c) == c

\* s.Close(): s.cmd.Process.Kill()
CloseServer(c) == IF c \in {"loading", "serving"} THEN "killed" ELSE c

SpawnUnchanged == UNCHANGED <<vars, selVars, planVars, schedVars, restVars>>

\* An error before cmd.Start(): the model cannot be read or decoded, or more
\* than one adapter is given.
SpawnFailEarly(r) ==
    /\ spPc[r] = "idle"
    /\ spPc' = [spPc EXCEPT ![r] = "returned"]
    /\ spErr' = [spErr EXCEPT ![r] = "early"]
    /\ UNCHANGED <<spPort, child, watcher, done, ticks, tried>>
    /\ SpawnUnchanged

\* cmd.Start() fails: the port is drawn, no process exists.
SpawnStartFails(r) ==
    /\ spPc[r] = "idle"
    /\ \E p \in Ports : spPort' = [spPort EXCEPT ![r] = p]
    /\ spPc' = [spPc EXCEPT ![r] = "returned"]
    /\ spErr' = [spErr EXCEPT ![r] = "start"]
    /\ UNCHANGED <<child, watcher, done, ticks, tried>>
    /\ SpawnUnchanged

\* The port is drawn at random, the runner of servers[0] is started and the
\* goroutine on cmd.Wait() is launched; the done field is left at its zero
\* value.
SpawnStart(r) ==
    /\ spPc[r] = "idle"
    /\ \E p \in Ports : spPort' = [spPort EXCEPT ![r] = p]
    /\ done' = [done EXCEPT ![r] = NilChannel]
    /\ child' = [child EXCEPT ![r] = "loading"]
    /\ watcher' = [watcher EXCEPT ![r] = "waiting"]
    /\ tried' = [tried EXCEPT ![r] = <<1>>]
    /\ spPc' = [spPc EXCEPT ![r] = "waiting"]
    /\ UNCHANGED <<ticks, spErr>>
    /\ SpawnUnchanged

\* The runner binds its port and answers requests; a port another runner
\* listens on cannot be bound.
ChildServe(r) ==
    /\ child[r] = "loading"
    /\ ~PingOk(r)
    /\ child' = [child EXCEPT ![r] = "serving"]
    /\ UNCHANGED <<spPc, spPort, watcher, done, ticks, spErr, tried>>
    /\ SpawnUnchanged

\* The runner ends by itself.
ChildExit(r) ==
    /\ Alive(r)
    /\ child' = [child EXCEPT ![r] = "exited"]
    /\ UNCHANGED <<spPc, spPort, watcher, done, ticks, spErr, tried>>
    /\ SpawnUnchanged

\* cmd.Wait() returns and the goroutine goes on to send on s.done.
WatcherWake(r) ==
    /\ watcher[r] = "waiting"
    /\ child[r] \in {"exited", "killed"}
    /\ watcher' = [watcher EXCEPT ![r] = "sending"]
    /\ UNCHANGED <<spPc, spPort, child, done, ticks, spErr, tried>>
    /\ SpawnUnchanged

\* One round of the select of waitUntilRunning, and what NewLlamaServer does
\* with an error of the wait.
WaitStep(r) ==
    /\ spPc[r] = "waiting"
    /\ IF DoneReady(r)
       THEN /\ spErr' = [spErr EXCEPT ![r] = "terminated"]
            /\ child' = [child EXCEPT ![r] = CloseServer(child[r])]
            /\ spPc' = [spPc EXCEPT ![r] = "returned"]
            /\ UNCHANGED ticks
       ELSE IF Expired(r)
       THEN /\ spErr' = [spErr EXCEPT ![r] = "timedOut"]
            /\ child' = [child EXCEPT ![r] = CloseServer(child[r])]
            /\ spPc' = [spPc EXCEPT ![r] = "returned"]
            /\ UNCHANGED ticks
       ELSE IF PingOk(r)
       THEN /\ spPc' = [spPc EXCEPT ![r] = "returned"]
            /\ UNCHANGED <<spErr, child, ticks>>
       ELSE /\ ticks' = [ticks EXCEPT ![r] = ticks[r] + 1]
            /\ UNCHANGED <<spErr, child, spPc>>
    /\ watcher' = IF DoneReady(r) THEN [watcher EXCEPT ![r] = "terminated"] ELSE watcher
    /\ UNCHANGED <<spPort, done, tried>>
    /\ SpawnUnchanged

\* LlamaServer.Close on a server NewLlamaServer returned.
CloseRunner(r) ==
    /\ spPc[r] = "returned"
    /\ spErr[r] = "none"
    /\ Alive(r)
    /\ child' = [child EXCEPT ![r] = CloseServer(child[r])]
    /\ UNCHANGED <<spPc, spPort, watcher, done, ticks, spErr, tried>>
    /\ SpawnUnchanged

\* The caller's request is cancelled while a runner is starting; NewLlamaServer
\* is given no context, so nothing of the call changes.
CancelStart ==
    /\ \E r \in Runners : spPc[r] = "waiting"
    /\ ~cancelled
    /\ cancelled' = TRUE
    /\ UNCHANGED <<op, pc, retries, retryDelay, retryNeeded, resp, line, scanEnd, sent,
                   linesRead, events, result, posts, openBodies, sleeps, killed, closed,
                   afterClose>>
    /\ UNCHANGED otherVars

NextSpawn ==
    \/ CancelStart
    \/ \E r \in Runners :
        \/ SpawnFailEarly(r)
        \/ SpawnStartFails(r)
        \/ SpawnStart(r)
        \/ ChildServe(r)
        \/ ChildExit(r)
        \/ WatcherWake(r)
        \/ WaitStep(r)
        \/ CloseRunner(r)

SpecSpawn == InitSpawn /\ [][NextSpawn]_allVars

\* The goroutines and the child processes go on as long as they can.
SpecSpawnLive == SpecSpawn /\ WF_allVars(NextSpawn)

\* C12: no two runners alive at the same time hold the same port.
C12_PortsExclusive ==
    \A r, q \in Runners :
        (r # q /\ Alive(r) /\ Alive(q)) => spPort[r] # spPort[q]

\* C13: when the child has exited and its exit status is held for the wait, the
\* next round of the wait ends it with the error that reports the exit.
C13_ExitEndsWait ==
    [][\A r \in Runners :
         (/\ spPc[r] = "waiting"
          /\ watcher[r] = "sending"
          /\ <<spPc'[r], ticks'[r]>> # <<spPc[r], ticks[r]>>)
            => (spPc'[r] = "returned" /\ spErr'[r] = "terminated")]_allVars

\* C14: when NewLlamaServer has returned an error, the child it started, if
\* any, has ended or has been sent the kill signal.
C14_ErrorLeavesNoChild ==
    \A r \in Runners :
        (spPc[r] = "returned" /\ spErr[r] # "none") => ~Alive(r)

\* The wait expired on a child that was still loading, and the child was killed;
\* another call failed before it started a child.
C14_Witness ==
    \E r, q \in Runners :
        /\ spPc[r] = "returned" /\ spErr[r] = "timedOut" /\ child[r] = "killed"
        /\ spPc[q] = "returned" /\ spErr[q] = "start" /\ child[q] = "none"

\* C15: when the runner of a candidate did not become healthy, NewLlamaServer
\* has gone on to the next candidates: it fails only with every candidate of
\* the selector's list tried, in the order of the list.
C15_FailureTriedAll ==
    \A r \in Runners :
        (spPc[r] = "returned" /\ spErr[r] \in {"timedOut", "terminated"})
            => tried[r] = [i \in 1..Len(servers) |-> i]

\* ================================================== callers of a single runner

InitSched == CallOff /\ SelectorOff /\ PlannerOff /\ SpawnOff /\ SchedOff /\ RestOff

SchedUnchanged == UNCHANGED <<vars, selVars, planVars, spawnVars, restVars>>

\* Every caller is let through at once.
RunnerFreeAlways == TRUE

\* The runner has no generation of any caller under way.
RunnerFree == \A c \in Callers : schedPc[c] # "running"

\* A handler asks for a generation and waits in the queue of the runner.
Enqueue(c) ==
    /\ schedPc[c] = "idle"
    /\ calls[c] < MaxCalls
    /\ calls' = [calls EXCEPT ![c] = calls[c] + 1]
    /\ schedPc' = [schedPc EXCEPT ![c] = "queued"]
    /\ queue' = Append(queue, c)
    /\ UNCHANGED <<inFlight, attempts>>
    /\ SchedUnchanged

\* The caller at the head of the queue is let through to Completion when the
\* runner is free.
Admit ==
    /\ queue # <<>>
    /\ RunnerFree
    /\ schedPc' = [schedPc EXCEPT ![Head(queue)] = "running"]
    /\ attempts' = [attempts EXCEPT ![Head(queue)] = 0]
    /\ queue' = Tail(queue)
    /\ UNCHANGED <<inFlight, calls>>
    /\ SchedUnchanged

\* Completion sends POST /completion.
SendPost(c) ==
    /\ schedPc[c] = "running"
    /\ c \notin inFlight
    /\ attempts[c] < maxRetries
    /\ inFlight' = inFlight \cup {c}
    /\ UNCHANGED <<schedPc, queue, attempts, calls>>
    /\ SchedUnchanged

\* The response ended with a slot unavailable line: Completion goes round its
\* retry loop.
PostBusy(c) ==
    /\ c \in inFlight
    /\ inFlight' = inFlight \ {c}
    /\ attempts' = [attempts EXCEPT ![c] = attempts[c] + 1]
    /\ UNCHANGED <<schedPc, queue, calls>>
    /\ SchedUnchanged

\* The response ended and Completion returns; so it does with its retries used
\* up.
Finish(c) ==
    /\ schedPc[c] = "running"
    /\ c \in inFlight \/ attempts[c] = maxRetries
    /\ inFlight' = inFlight \ {c}
    /\ schedPc' = [schedPc EXCEPT ![c] = "idle"]
    /\ UNCHANGED <<queue, attempts, calls>>
    /\ SchedUnchanged

NextSched ==
    \/ \E c \in Callers : Enqueue(c)
    \/ Admit
    \/ \E c \in Callers : SendPost(c)
    \/ \E c \in Callers : PostBusy(c)
    \/ \E c \in Callers : Finish(c)

SpecSched == InitSched /\ [][NextSched]_allVars

\* C11: at most one POST /completion is in flight against the runner, and while
\* one caller's generation is under way no other caller's request has been
\* sent.
C11_OneGenerationInFlight ==
    /\ Cardinality(inFlight) <= 1
    /\ \A c, d \in Callers :
          (c # d /\ schedPc[c] = "running") => (d \notin inFlight /\ schedPc[d] # "running")

\* A second generation is in flight, on a retry, while the other caller waits
\* in the queue, the first generation having finished.
C11_Witness ==
    \E c, d \in Callers :
        /\ c # d
        /\ c \in inFlight
        /\ attempts[c] > 0
        /\ schedPc[d] = "queued"
        /\ calls[c] + calls[d] >= 3

\* ------------------------------------------------- more on the layer planner

\* graph + kv*layers/maxLayers <= avg, on the planner's integers, for the layer
\* count it resolved.
FitsOnGpu ==
    graphOf(optsIn, ggml)
        + Quot(kvOf(optsIn, ggml) * opts.NumGPU, ggml.NumLayers + 1)
        <= Quot(vram, deviceCount)

\* S + kv + graph <= V
FitsOnDarwin == ggml.Size + kvOf(optsIn, ggml) + graphOf(optsIn, ggml) <= vram

\* C21 as stated: whenever the resolved NumGPU is greater than 0 the fit
\* predicate holds, FitsOnGpu on systems other than Darwin and FitsOnDarwin on
\* Darwin.
C21_PositiveCountFits ==
    (planPc = "done" /\ opts.NumGPU > 0)
        => IF goos = "darwin" THEN FitsOnDarwin ELSE FitsOnGpu

\* C21 as amended: whenever the resolved NumGPU is greater than 0 and it is not
\* a count the caller set on a system other than Darwin with a GPU library
\* probed, the fit predicate holds.
C21_PlannedCountFits ==
    (planPc = "done" /\ opts.NumGPU > 0 /\ ~CallerSetCount)
        => IF goos = "darwin" THEN FitsOnDarwin ELSE FitsOnGpu

\* A system other than Darwin resolves a split: some layers, not all.
C21_Witness ==
    /\ planPc = "done"
    /\ goos = "linux"
    /\ optsIn.NumGPU = -1
    /\ opts.NumGPU > 0
    /\ opts.NumGPU < ggml.NumLayers + 1
    /\ FitsOnGpu

\* C22: on Darwin a caller's NumGPU of 0 is kept; otherwise the result is
\* NumGPU = 0 with library cpu and the probed CPU flag as variant when
\* S + kv + graph > V, and NumGPU = 999 when not.
C22_DarwinAllOrNothing ==
    (planPc = "done" /\ goos = "darwin") =>
        IF optsIn.NumGPU = 0
        THEN opts.NumGPU = 0
        ELSE IF ggml.Size + kvOf(optsIn, ggml) + graphOf(optsIn, ggml) > vram
        THEN /\ opts.NumGPU = 0
             /\ gpuInfo.Library = "cpu"
             /\ gpuInfo.Variant = cpuVariant
        ELSE opts.NumGPU = 999

\* The fallback on Darwin, from a GPU probe with a variant of its own on a CPU
\* with a flag.
C22_Witness ==
    /\ planPc = "done"
    /\ goos = "darwin"
    /\ optsIn.NumGPU = 1
    /\ opts.NumGPU = 0
    /\ gpuInfo = [Library |-> "cpu", Variant |-> "avx2"]
    /\ ggml.Size + kvOf(optsIn, ggml) + graphOf(optsIn, ggml) > vram

\* ====================================================== the runner's command

\* The directory of the variant NewLlamaServer starts: available[servers[0]].
VariantDir == "dir"

AdapterLists == {<<>>, <<"lora1">>, <<"lora1", "lora2">>}

ProjectorLists == {<<>>, <<"proj1">>, <<"proj1", "proj2">>}

\* LD_LIBRARY_PATH not set, or set to one or two directories.
InheritedPaths == {<<>>, <<"/lib">>, <<"/lib", "/opt">>}

CommandModels ==
    {m \in Models : m.NumLayers = 1 /\ m.NumHeadKv = 4 /\ m.NumGQA = 1 /\ m.Size = 64}

CommandInput ==
    /\ goos \in {"darwin", "linux"}
    /\ ggml \in CommandModels
    /\ vram \in {0, 8192}
    /\ deviceCount = 1
    /\ optsIn \in OptionSets
    /\ opts = optsIn
    /\ planPc = "input"
    /\ availableTags = {}
    /\ gpuInfo \in PlanProbes
    /\ cpuVariant = ""
    /\ servers = <<>>
    /\ selPc = "off"
    /\ adapters \in AdapterLists
    /\ projectors \in ProjectorLists
    /\ inheritedPath \in InheritedPaths
    /\ params = NoParams
    /\ childPath = <<>>
    /\ cmdErr = "none"
    /\ cmdPc = "input"

InitCommand ==
    CallOff /\ SpawnOff /\ SchedOff /\ CommandInput /\ RequestOff /\ PayloadOff
        /\ OpenAIOff

\* if len(adapters) > 1
TooMany(list) == Len(list) > 1

\* The first element of a list, when it has one.
FirstOf(list) == IF Len(list) > 0 THEN list[1] ELSE ""

\* libraryPaths: the inherited LD_LIBRARY_PATH when it is set, then the variant
\* directory.
LibraryPaths(inherited, dir) == inherited \o <<dir>>

\* The adapters check, the parameters and the environment of the child.
BuildCommand ==
    /\ planPc = "done"
    /\ cmdPc = "input"
    /\ IF TooMany(adapters)
       THEN /\ cmdErr' = "adapters"
            /\ cmdPc' = "error"
            /\ UNCHANGED <<params, childPath>>
       ELSE /\ params' = [ctxSize |-> opts.NumCtx,
                          nGpuLayers |-> IF opts.NumGPU > 0 THEN opts.NumGPU ELSE 0,
                          lora |-> FirstOf(adapters),
                          mmproj |-> FirstOf(projectors)]
            /\ childPath' = LibraryPaths(inheritedPath, VariantDir)
            /\ cmdPc' = "built"
            /\ UNCHANGED cmdErr
    /\ UNCHANGED <<adapters, projectors, inheritedPath>>
    /\ UNCHANGED <<vars, selVars, planVars, spawnVars, schedVars, reqVars, payVars, oaVars>>

\* cmd.Start()
StartCommand ==
    /\ cmdPc = "built"
    /\ \/ cmdPc' = "started" /\ UNCHANGED cmdErr
       \/ cmdPc' = "error" /\ cmdErr' = "start"
    /\ UNCHANGED <<adapters, projectors, inheritedPath, params, childPath>>
    /\ UNCHANGED <<vars, selVars, planVars, spawnVars, schedVars, reqVars, payVars, oaVars>>

NextCommand == Plan \/ BuildCommand \/ StartCommand

SpecCommand == InitCommand /\ [][NextCommand]_allVars

\* C23 as stated: the context size passed as --ctx-size lies in
\* [4, model max context].
C23_CtxSizeInRange ==
    cmdPc \in {"built", "started"} =>
        (params.ctxSize >= 4 /\ params.ctxSize <= ggml.NumCtx)

\* C23 as amended: the context size passed as --ctx-size is at least 4; it does
\* not exceed the model's max context when that is at least 4, and it is 4 when
\* the model's max context is below 4.
C23_CtxSizeClamped ==
    cmdPc \in {"built", "started"} =>
        /\ params.ctxSize >= 4
        /\ ggml.NumCtx >= 4 => params.ctxSize <= ggml.NumCtx
        /\ ggml.NumCtx < 4 => params.ctxSize = 4

\* A request above the model's max context is cut down to it.
C23_Witness ==
    /\ cmdPc = "started"
    /\ optsIn.NumCtx > ggml.NumCtx
    /\ ggml.NumCtx >= 4
    /\ params.ctxSize = ggml.NumCtx

\* C24: with more than one adapter or more than one projector NewLlamaServer
\* returns an error and starts no child.
C24_OneAdapterOneProjector ==
    (Len(adapters) > 1 \/ Len(projectors) > 1) =>
        /\ cmdPc # "started"
        /\ cmdPc = "error" => cmdErr = "adapters"

\* C29: the variant directory is the first entry of the child's
\* LD_LIBRARY_PATH.
C29_VariantDirFirst ==
    cmdPc \in {"built", "started"} => childPath[1] = VariantDir

\* --------------------------------------------------- more on the selector

\* The tags of the probed library other than the requested one.
OtherTagsOfLibrary ==
    {a \in availableTags : a.lib = gpuInfo.Library /\ a # Requested(gpuInfo)}

\* cpu_<flag> when that tag is available, and bare cpu otherwise.
BestCpuFallback ==
    IF cpuVariant # "" /\ Tag("cpu", cpuVariant) \in availableTags
    THEN Tag("cpu", cpuVariant)
    ELSE CpuTag

\* C30: for a library other than cpu the list is the requested tag when it is
\* available, then every other available tag of the library in ascending
\* order, then one CPU fallback, cpu_<flag> when available and bare cpu
\* otherwise; the early return at an available metal tag (C19) is left aside.
C30_AlternatesThenCpuFallback ==
    (selPc = "done" /\ gpuInfo.Library # "cpu"
        /\ ~(Requested(gpuInfo) = MetalTag /\ MetalTag \in availableTags)) =>
        LET first == IF Requested(gpuInfo) \in availableTags THEN 1 ELSE 0
            n == Len(servers)
        IN  /\ n = first + Cardinality(OtherTagsOfLibrary) + 1
            /\ first = 1 => servers[1] = Requested(gpuInfo)
            /\ {servers[i] : i \in (first + 1)..(n - 1)} = OtherTagsOfLibrary
            /\ \A i, j \in (first + 1)..(n - 1) : i < j => TagLess(servers[i], servers[j])
            /\ servers[n] = BestCpuFallback

\* ================================================ the body of a completion

\* The constant grammar of JSON output.
jsonGrammar == "root ::= object ..."

Formats == {"", "json", "JSON", "yaml"}

RequestOptions ==
    {[NoOptions EXCEPT !.NumPredict = n, !.Temperature = t, !.Seed = sd, !.Stop = st] :
        n \in {-1, 128}, t \in {0, 1}, sd \in {0, 42}, st \in {<<>>, <<"</s>">>}}

CompletionRequests ==
    [Prompt : {"", "why"}, Format : Formats, Images : {<<>>, <<"image0">>},
     Options : RequestOptions]

\* The grammar is sent with every Format that is set.
IsJsonFormatWhenSet(f) == f # ""

\* req.Format == "json"
IsJsonFormat(f) == f = "json"

\* request := map[string]any{...}, and the grammar key for the JSON format.
RequestBody(r) ==
    LET request ==
            [prompt |-> r.Prompt,
             stream |-> TRUE,
             n_predict |-> r.Options.NumPredict,
             n_keep |-> r.Options.NumKeep,
             main_gpu |-> r.Options.MainGPU,
             temperature |-> r.Options.Temperature,
             top_k |-> r.Options.TopK,
             top_p |-> r.Options.TopP,
             tfs_z |-> r.Options.TFSZ,
             typical_p |-> r.Options.TypicalP,
             repeat_last_n |-> r.Options.RepeatLastN,
             repeat_penalty |-> r.Options.RepeatPenalty,
             presence_penalty |-> r.Options.PresencePenalty,
             frequency_penalty |-> r.Options.FrequencyPenalty,
             mirostat |-> r.Options.Mirostat,
             mirostat_tau |-> r.Options.MirostatTau,
             mirostat_eta |-> r.Options.MirostatEta,
             penalize_nl |-> r.Options.PenalizeNewline,
             seed |-> r.Options.Seed,
             stop |-> r.Options.Stop,
             image_data |-> r.Images]
    IN  IF IsJsonFormat(r.Format)
        THEN ("grammar" :> jsonGrammar) @@ request
        ELSE request

RequestInput ==
    /\ req \in CompletionRequests
    /\ otherFormat \in Formats
    /\ body = <<>>
    /\ otherBody = <<>>
    /\ reqPc = "input"

InitRequest ==
    CallOff /\ SelectorOff /\ PlannerOff /\ SpawnOff /\ SchedOff /\ CommandOff
        /\ RequestInput /\ PayloadOff /\ OpenAIOff

\* Completion builds the body of the request, and the body of the same request
\* with the other Format.
BuildRequests ==
    /\ reqPc = "input"
    /\ body' = RequestBody(req)
    /\ otherBody' = RequestBody([req EXCEPT !.Format = otherFormat])
    /\ reqPc' = "done"
    /\ UNCHANGED <<req, otherFormat>>
    /\ UNCHANGED <<vars, selVars, planVars, spawnVars, schedVars, cmdVars, payVars, oaVars>>

NextRequest == BuildRequests

SpecRequest == InitRequest /\ [][NextRequest]_allVars

\* C28: of two requests that differ only in Format, the body for Format "json"
\* is the body for the other Format with the key grammar added, holding the
\* constant grammar, every other key and value the same; for a Format other
\* than "json" the body has no key grammar.
C28_GrammarIsTheOnlyChange ==
    reqPc = "done" =>
        /\ req.Format # "json" => "grammar" \notin DOMAIN body
        /\ (req.Format = "json" /\ otherFormat # "json") =>
              /\ "grammar" \notin DOMAIN otherBody
              /\ DOMAIN body = DOMAIN otherBody \cup {"grammar"}
              /\ body["grammar"] = jsonGrammar
              /\ \A k \in DOMAIN otherBody : body[k] = otherBody[k]

\* A request with an image and a stop word is built with Format "json" and with
\* a Format that differs from it only by case.
C28_Witness ==
    /\ reqPc = "done"
    /\ req.Format = "json"
    /\ otherFormat = "JSON"
    /\ req.Images # <<>>
    /\ req.Options.Stop # <<>>
    /\ "grammar" \in DOMAIN body
    /\ "prompt" \in DOMAIN otherBody

\* ================================================= extracting the payloads

\* The directory before the last of a path is taken for the variant.
VariantOfParent(file) == file[Len(file) - 1]

\* filepath.Base(filepath.Dir(filepath.Dir(filename)))
VariantOf(file) == file[Len(file) - 2]

\* The name of the destination file: the .gz suffix is cut off and server
\* becomes ollama_llama_server.
DestBase(file) ==
    LET base == file[Len(file)]
    IN  CASE base = "server" -> "ollama_llama_server"
          [] base = "server.gz" -> "ollama_llama_server"
          [] OTHER -> base

\* <targetDir>/<variant>/<base>, below the working directory.
DestOf(file) == <<VariantOf(file), DestBase(file)>>

\* The file is taken to be missing whatever is there.
ExistsNever(dest) == FALSE

\* os.Stat(destFilename) finds the file.
Exists(dest) == dest \in DOMAIN content

\* g.Wait() returns at once.
TasksJoinedAlways == TRUE

\* g.Wait(): every task has returned.
TasksJoined == \A f \in EmbeddedFiles : task[f] \in {"done", "failed"}

\* available(): one key for each entry of the working directory, mapped to
\* its path.
available == [d \in dirs |-> <<"workDir", d>>]

InitPayload ==
    CallOff /\ SelectorOff /\ PlannerOff /\ SpawnOff /\ SchedOff /\ CommandOff
        /\ RequestOff /\ PayloadOff /\ OpenAIOff

PayloadUnchanged ==
    UNCHANGED <<vars, selVars, planVars, spawnVars, schedVars, cmdVars, reqVars, oaVars>>

\* Init is called: extractFiles globs the embedded tree, makes the target
\* directory and starts one task for each file; the call fails when the
\* directory cannot be made.
InitStart ==
    /\ initPc \in {"idle", "returned"}
    /\ inits < MaxInits
    /\ inits' = inits + 1
    /\ written' = {}
    /\ \/ /\ initPc' = "extracting"
          /\ task' = [f \in EmbeddedFiles |-> "ready"]
          /\ faulted' = FALSE
          /\ UNCHANGED initResults
       \/ /\ initPc' = "returned"
          /\ task' = [f \in EmbeddedFiles |-> "none"]
          /\ faulted' = TRUE
          /\ initResults' = Append(initResults, "error")
    /\ UNCHANGED <<dirs, content>>
    /\ PayloadUnchanged

\* A task opens its embedded file, makes the directory of the variant and
\* looks for the destination file.
TaskStat(f) ==
    /\ initPc = "extracting"
    /\ task[f] = "ready"
    /\ \/ /\ task' = [task EXCEPT ![f] = "failed"]
          /\ faulted' = TRUE
          /\ UNCHANGED dirs
       \/ /\ dirs' = dirs \cup {VariantOf(f)}
          /\ task' = [task EXCEPT ![f] = IF Exists(DestOf(f)) THEN "done" ELSE "absent"]
          /\ UNCHANGED faulted
    /\ UNCHANGED <<inits, initPc, initResults, content, written>>
    /\ PayloadUnchanged

\* os.OpenFile with O_CREATE and O_TRUNC: the destination is there and empty.
TaskOpen(f) ==
    /\ initPc \in {"extracting", "returned"}
    /\ task[f] = "absent"
    /\ \/ /\ task' = [task EXCEPT ![f] = "failed"]
          /\ faulted' = TRUE
          /\ UNCHANGED <<content, written>>
       \/ /\ task' = [task EXCEPT ![f] = "writing"]
          /\ content' = (DestOf(f) :> [from |-> f, whole |-> FALSE]) @@ content
          /\ written' = written \cup {DestOf(f)}
          /\ UNCHANGED faulted
    /\ UNCHANGED <<inits, initPc, initResults, dirs>>
    /\ PayloadUnchanged

\* io.Copy: the payload is written out, or the copy fails part of the way.
TaskCopy(f) ==
    /\ initPc \in {"extracting", "returned"}
    /\ task[f] = "writing"
    /\ \/ /\ task' = [task EXCEPT ![f] = "failed"]
          /\ faulted' = TRUE
          /\ UNCHANGED content
       \/ /\ task' = [task EXCEPT ![f] = "done"]
          /\ content' = (DestOf(f) :> [from |-> f, whole |-> TRUE]) @@ content
          /\ UNCHANGED faulted
    /\ UNCHANGED <<inits, initPc, initResults, dirs, written>>
    /\ PayloadUnchanged

\* g.Wait() returns the first error of the tasks, and Init returns it.
InitReturn ==
    /\ initPc = "extracting"
    /\ TasksJoined
    /\ initPc' = "returned"
    /\ initResults' =
          Append(initResults,
                 IF \E f \in EmbeddedFiles : task[f] = "failed" THEN "error" ELSE "ok")
    /\ UNCHANGED <<inits, task, dirs, content, written, faulted>>
    /\ PayloadUnchanged

NextPayload ==
    \/ InitStart
    \/ \E f \in EmbeddedFiles : TaskStat(f)
    \/ \E f \in EmbeddedFiles : TaskOpen(f)
    \/ \E f \in EmbeddedFiles : TaskCopy(f)
    \/ InitReturn

SpecPayload == InitPayload /\ [][NextPayload]_allVars

\* Every embedded file is at its destination with its whole contents.
AllExtracted ==
    /\ DOMAIN content = {DestOf(f) : f \in EmbeddedFiles}
    /\ \A f \in EmbeddedFiles : content[DestOf(f)] = [from |-> f, whole |-> TRUE]

\* C25: a run of Init after a run that succeeded writes no file; when it has
\* returned, the files are those of the first run with their contents, and it
\* has returned success unless an I/O operation failed.
C25_InitIdempotent ==
    (Len(initResults) >= 1 /\ initResults[1] = "ok" /\ inits >= 2) =>
        /\ written = {}
        /\ AllExtracted
        /\ (initPc = "returned" /\ ~faulted) => initResults[inits] = "ok"

C25_Witness ==
    /\ inits = 2
    /\ initPc = "returned"
    /\ initResults = <<"ok", "ok">>
    /\ AllExtracted

\* C26: when Init has returned no task is still running, and it has returned
\* an error when a task failed.
C26_InitJoinsTasks ==
    initPc = "returned" =>
        /\ \A f \in EmbeddedFiles : task[f] \in {"none", "done", "failed"}
        /\ (\E f \in EmbeddedFiles : task[f] = "failed") => initResults[inits] = "error"

\* Init has returned the error of a task whose copy failed, the other tasks
\* having finished their files.
C26_Witness ==
    /\ initPc = "returned"
    /\ initResults = <<"error">>
    /\ \E f \in EmbeddedFiles :
          /\ task[f] = "failed"
          /\ DestOf(f) \in DOMAIN content
          /\ ~content[DestOf(f)].whole
          /\ \A g \in EmbeddedFiles \ {f} : task[g] = "done"

\* The variant tags of the embedded tree.
EmbeddedTags == {"cpu", "cuda_v12"}

\* C27: after a successful Init, available() has a key for each variant tag of
\* the embedded tree and no other key, each mapped to <workDir>/<tag>, and the
\* file of each embedded file of the variant is in that directory.
C27_AvailableIsTheVariants ==
    (initPc = "returned" /\ initResults[inits] = "ok") =>
        /\ DOMAIN available = EmbeddedTags
        /\ \A t \in EmbeddedTags : available[t] = <<"workDir", t>>
        /\ \A f \in EmbeddedFiles : \E d \in DOMAIN content :
              d[1] = f[4] /\ content[d].from = f

C27_Witness ==
    /\ initPc = "returned"
    /\ initResults = <<"ok">>
    /\ DOMAIN available = EmbeddedTags
    /\ Cardinality(DOMAIN content) = 3

\* ------------------------------------------- the planner on other systems

\* C31: on a system other than Darwin the planner gives NumGPU = 0 when the
\* probe reports cpu; library cpu with the probed CPU flag, and NumGPU 0, when
\* the caller set NumGPU = 0; the caller's NumGPU when it is above 0; and a
\* count of its own, or the CPU fallback, only when the caller left -1.
C31_OtherSystemsPolicy ==
    [][(planPc = "input" /\ planPc' = "done" /\ goos # "darwin") =>
          IF gpuInfo.Library = "cpu"
          THEN opts'.NumGPU = 0 /\ gpuInfo' = gpuInfo
          ELSE IF opts.NumGPU = 0
          THEN /\ opts'.NumGPU = 0
               /\ gpuInfo' = [Library |-> "cpu", Variant |-> cpuVariant]
          ELSE IF opts.NumGPU > 0
          THEN opts'.NumGPU = opts.NumGPU /\ gpuInfo' = gpuInfo
          ELSE IF opts.NumGPU = -1
          THEN \/ /\ opts'.NumGPU \in 1..(ggml.NumLayers + 1)
                  /\ gpuInfo' = gpuInfo
               \/ /\ opts'.NumGPU = 0
                  /\ gpuInfo' = [Library |-> "cpu", Variant |-> cpuVariant]
          ELSE opts'.NumGPU = opts.NumGPU]_allVars

\* The caller's NumGPU = 0 has turned a GPU probe into the CPU with its flag.
C31_Witness ==
    /\ planPc = "done"
    /\ goos = "linux"
    /\ optsIn.NumGPU = 0
    /\ opts.NumGPU = 0
    /\ gpuInfo = [Library |-> "cpu", Variant |-> "avx2"]

\* C37: whenever the resolved NumGPU is 0, the accelerator info handed to
\* serversForGpu has library cpu.
C37_NoLayersMeansCpu ==
    (planPc = "done" /\ opts.NumGPU = 0) => gpuInfo.Library = "cpu"

\* ------------------------------------------------------ the retry delays

\* C34: the sleep before the n-th retry of a completion is 100 microseconds
\* times 2^(n-1), the unit of sleeps being 100 microseconds; every attempt but
\* the first is preceded by one sleep, and the first by none.
C34_DelaysDouble ==
    op = "Completion" =>
        /\ Len(sleeps) = (IF posts = 0 THEN 0 ELSE posts - 1)
        /\ \A n \in 1..Len(sleeps) : sleeps[n] = 2 ^ (n - 1)

\* The third attempt has been made, after sleeps of 100 and 200 microseconds.
C34_Witness ==
    /\ op = "Completion"
    /\ posts = 3
    /\ sleeps = <<1, 2>>

\* ------------------------------------------------- the slot-busy signal

\* C35: only a line that is the slot-busy signal itself marks the attempt for
\* a retry; a well-formed data line is handed to the callback as its events
\* and leaves the mark alone, whatever text its content holds.
C35_OnlyTheSignalRetries ==
    [][(op = "Completion" /\ pc = "process" /\ pc' # "process") =>
          /\ (retryNeeded' /\ ~retryNeeded) =>
                (line.kind = "text" /\ line.text = SlotUnavailable)
          /\ (line.kind = "data" /\ line.json) =>
                (retryNeeded' = retryNeeded /\ events' = events \o LineEvents(line))]_allVars

\* ------------------------------------------- the tags the selector returns

\* C36: every tag of the list serversForGpu returns is a key of available().
C36_ServersAreAvailable ==
    selPc = "done" => \A i \in 1..Len(servers) : servers[i] \in availableTags

\* ------------------------------------------------ the files after Init

\* C38: when Init has returned success every destination file holds the whole
\* content of its embedded payload.
C38_SuccessMeansWholeFiles ==
    (initPc = "returned" /\ initResults[inits] = "ok") => AllExtracted

\* ------------------------------------------- the exit and the cancellation

\* C32: after the child of a runner has ended, the goroutine on cmd.Wait()
\* eventually hands the exit status over on the done channel and ends.
C32_ExitIsPublished ==
    \A r \in Runners :
        (child[r] \in {"exited", "killed"} /\ watcher[r] # "none")
            ~> (watcher[r] = "terminated")

\* C33: once the caller's request is cancelled, the next round of the health
\* wait of a starting runner ends it with the cancellation error.
C33_CancelEndsWait ==
    [][\A r \in Runners :
         (/\ cancelled
          /\ spPc[r] = "waiting"
          /\ <<spPc'[r], ticks'[r]>> # <<spPc[r], ticks[r]>>)
            => (spPc'[r] = "returned" /\ spErr'[r] = "cancelled")]_allVars

\* ------------------------------------- the streaming chat completion

\* The most values the upstream channel delivers before the done value.
MaxChunks == 3

\* What chat() delivers on its channel: content responses, then the channel is
\* closed, after a last response with Done set, after a value that is no
\* api.ChatResponse, or after neither.
Upstreams ==
    { [i \in 1..n |-> "content"] \o last :
        n \in 0..MaxChunks, last \in {<<>>, <<"done">>, <<"bad">>} }

\* The events the response can carry: the role chunk, a content chunk, the
\* chunk with finish_reason "stop", the error object and "data: [DONE]".
FinishReason(v) == IF v = "done" THEN "stop" ELSE "content"

\* if resp.Done { transformedCh <- StreamCompletionMarker{} }
MarkerFollowsAny(v) == TRUE

MarkerFollows(v) == v = "done"

\* What the goroutine sends where it stands: the value and the event that
\* json.Marshal and the "data: " prefix make of it.
Sending == {"sendRole", "sendChunk", "sendMarker", "sendErr"}

EventOf ==
    CASE gPc = "sendRole" -> "role"
      [] gPc = "sendChunk" -> FinishReason(val)
      [] gPc = "sendMarker" -> "[DONE]"
      [] gPc = "sendErr" -> "error"

\* Where the goroutine goes once its send has been received.
AfterSend ==
    CASE gPc = "sendRole" -> "range"
      [] gPc = "sendChunk" -> IF MarkerFollows(val) THEN "sendMarker" ELSE "range"
      [] gPc = "sendMarker" -> "range"
      [] gPc = "sendErr" -> "exited"

\* The step function's result after a write that succeeded.
KeepOpen(event) == event # "[DONE]"

OpenAIInput ==
    /\ ch \in Upstreams
    /\ val = "none"
    /\ gPc = "sendRole"
    /\ wPc = "select"
    /\ wire = <<>>
    /\ clientGone = FALSE

InitOpenAI ==
    CallOff /\ SelectorOff /\ PlannerOff /\ SpawnOff /\ SchedOff /\ CommandOff
        /\ RequestOff /\ PayloadOff /\ OpenAIInput

OpenAIUnchanged ==
    UNCHANGED <<vars, selVars, planVars, spawnVars, schedVars, cmdVars, reqVars, payVars>>

\* for val := range ch: the goroutine takes the next value, or finds the
\* channel closed, returns and closes the transformed channel.
GoRange ==
    /\ gPc = "range"
    /\ IF ch = <<>>
         THEN /\ gPc' = "exited"
              /\ UNCHANGED <<ch, val>>
         ELSE /\ val' = Head(ch)
              /\ ch' = Tail(ch)
              /\ gPc' = IF Head(ch) = "bad" THEN "sendErr" ELSE "sendChunk"
    /\ UNCHANGED <<wPc, wire, clientGone>>
    /\ OpenAIUnchanged

\* The client closes the connection.
ClientLeaves ==
    /\ wPc \in {"select", "step"}
    /\ ~clientGone
    /\ clientGone' = TRUE
    /\ UNCHANGED <<ch, val, gPc, wPc, wire>>
    /\ OpenAIUnchanged

\* c.Stream: between two steps the loop returns when the client has gone, and
\* calls the step function otherwise.
StreamSelect ==
    /\ wPc = "select"
    /\ wPc' = IF clientGone THEN "returned" ELSE "step"
    /\ UNCHANGED <<ch, val, gPc, wire, clientGone>>
    /\ OpenAIUnchanged

\* The step function receives what the goroutine sends on the unbuffered
\* channel and writes it; the write succeeds or fails.
StepReceive ==
    /\ wPc = "step"
    /\ gPc \in Sending
    /\ \E ok \in BOOLEAN :
         /\ wire' = IF ok THEN Append(wire, EventOf) ELSE wire
         /\ wPc' = IF ok /\ KeepOpen(EventOf) THEN "select" ELSE "returned"
    /\ gPc' = AfterSend
    /\ UNCHANGED <<ch, val, clientGone>>
    /\ OpenAIUnchanged

\* val, ok := <-ch; if !ok { return false }
StepClosed ==
    /\ wPc = "step"
    /\ gPc = "exited"
    /\ wPc' = "returned"
    /\ UNCHANGED <<ch, val, gPc, wire, clientGone>>
    /\ OpenAIUnchanged

NextOpenAI ==
    \/ GoRange
    \/ ClientLeaves
    \/ StreamSelect
    \/ StepReceive
    \/ StepClosed

SpecOpenAI == InitOpenAI /\ [][NextOpenAI]_allVars

\* The goroutine and the handler's loop are both scheduled.
SpecOpenAILive == SpecOpenAI /\ WF_allVars(NextOpenAI)

\* C39: the transformation goroutine ends in every run of the streaming
\* handler, also when the loop that writes the response stops reading.
C39_GoroutineTerminates == <>(gPc = "exited")

\* C40: the first event written is the role chunk; "data: [DONE]" is written
\* at most once, directly after the chunk with finish_reason "stop", and is
\* the last thing written.
C40_EventOrder ==
    /\ wire # <<>> => wire[1] = "role"
    /\ \A i \in 1..Len(wire) :
         wire[i] = "[DONE]" => (i = Len(wire) /\ i > 1 /\ wire[i - 1] = "stop")

C40_Witness ==
    /\ wPc = "returned"
    /\ Len(wire) >= 3
    /\ wire[Len(wire)] = "[DONE]"

====
